---- MODULE Spec2Model ----
(***************************************************************************)
(* A model of src/src/movegen.py: the fixed-depth alpha-beta search        *)
(* (next_move, minimax_root, minimax), the move orderer and the feature    *)
(* extractors.                                                             *)
(*                                                                         *)
(* The Board Model (python-chess) and the Static Evaluator (eval.py) are   *)
(* external: a position is a node of a finite game tree whose fields are   *)
(* the answers those collaborators give for it.  One search call is run    *)
(* as a stack machine, one frame per minimax invocation, so that every     *)
(* point between a push and its pop is a state.                            *)
(***************************************************************************)
EXTENDS Integers, Sequences, FiniteSets, TLC

VARIABLES
    tree,        \* the game tree under the root position (Board Model + evaluator answers)
    depth,       \* the depth the caller passes to next_move
    board,       \* the chess.Board: [move_stack, turn]
    board0,      \* the board as it was when the current call started
    debug_info,  \* the module-level dict, a set of <<key, value>> pairs
    pc,          \* "idle" | "root_loop" | "minimax" | "root_got" | "done" | "raised"
    root,        \* the locals of minimax_root
    frames,      \* the minimax invocations in progress, outermost first
    ret,         \* the value the last returned invocation handed to its caller
    result,      \* the move next_move returned (0: none yet)
    calls,       \* the number of next_move calls made so far
    consulted,   \* the number of evaluate_board / get_ordered_moves consultations
    feat         \* the feature extractor in progress: [name, left, copy]

vars == <<tree, depth, board, board0, debug_info, pc, root, frames, ret, result,
          calls, consulted, feat>>

----------------------------------------------------------------------------
(* Program constants *)

MATE_SCORE == 1000000000

MATE_THRESHOLD == 999000000

\* float("inf"): larger than every score; it is only ever compared
inf == 2000000000

WHITE == TRUE

BLACK == FALSE

\* piece_value[chess.QUEEN]: the material imbalance the positions that are
\* over show to evaluate_board
piece_value_QUEEN == 900

----------------------------------------------------------------------------
(* Bounds of the model *)

\* legal moves per position
MaxMoves == 2

\* positions below the root in a tree of the enumerated family
MaxNodes == 3

\* the largest depth passed to next_move over the enumerated family
MaxDepth == 3

\* next_move calls in one behaviour
MaxCalls == 2

\* pieces the feature extractors iterate over
MaxPieces == 2

Depths == (0 - 1)..MaxDepth

EvalValues == {0 - 1, 0, 1}

Keys == {0, 1}

DrawKinds == {"stalemate", "insufficient_material", "seventyfive_moves",
              "fivefold_repetition"}

\* the moves played before the call
History == <<2, 1>>

----------------------------------------------------------------------------
(* The Board Model: a position is a node of the game tree.                 *)
(*   kind   "play", "checkmate" or one of DrawKinds                        *)
(*   ev     evaluate_board(board) at this position                         *)
(*   claim  board.can_claim_draw() at this position                        *)
(*   key    move_value(...) of the move that leads here                    *)
(*   kids   the positions after each legal move, in board.legal_moves      *)
(*          order; a move is its index in that order                       *)

Node(k, e, ks) == [kind |-> k, ev |-> e, claim |-> FALSE, key |-> 0, kids |-> ks]

RECURSIVE Sub(_, _)
\* the position reached from t by the moves of path
Sub(t, path) ==
    IF path = <<>> THEN t ELSE Sub(t.kids[Head(path)], Tail(path))

\* the moves pushed since the call started
Path(b, b0) == SubSeq(b.move_stack, Len(b0.move_stack) + 1, Len(b.move_stack))

\* the position the board is in
Position(b) == Sub(tree, SubSeq(b.move_stack, Len(History) + 1, Len(b.move_stack)))

is_checkmate(n) == n.kind = "checkmate"

is_game_over(n) == n.kind = "checkmate" \/ n.kind \in DrawKinds

can_claim_draw(n) == n.claim

legal_moves(n) == 1..Len(n.kids)

evaluate_board(n) == n.ev

\* board.push(move): the move goes on the stack and the turn passes
push(b, move) == [move_stack |-> Append(b.move_stack, move), turn |-> ~b.turn]

\* board.pop(): the last move comes off the stack and the turn passes back
pop(b) == [move_stack |-> SubSeq(b.move_stack, 1, Len(b.move_stack) - 1),
           turn |-> ~b.turn]

----------------------------------------------------------------------------
(* debug_info, a dict *)

Get(d, k) == (CHOOSE p \in d : p[1] = k)[2]

Put(d, k, v) == {p \in d : p[1] # k} \cup {<<k, v>>}

\* debug_info["nodes"] += 1
count_node(d) == Put(d, "nodes", Get(d, "nodes") + 1)

\* a reset that keeps a count left by an earlier call
reset_stats_keeps(d) ==
    IF d = {} THEN Put({}, "nodes", 0) ELSE {<<"nodes", Get(d, "nodes")>>}

\* lines 26-27: debug_info.clear(); debug_info["nodes"] = 0
reset_stats(d) == Put({}, "nodes", 0)

----------------------------------------------------------------------------
(* get_ordered_moves: sorted(board.legal_moves, key=orderer,               *)
(* reverse=(board.turn == chess.WHITE)).  sorted is stable, also under     *)
(* reverse: moves with equal keys keep their legal_moves order.            *)

move_value(n, move) == n.kids[move].key

\* move m1 is placed before move m2
Before(n, reverse, m1, m2) ==
    IF move_value(n, m1) # move_value(n, m2)
    THEN IF reverse THEN move_value(n, m1) > move_value(n, m2)
                    ELSE move_value(n, m1) < move_value(n, m2)
    ELSE m1 < m2

get_ordered_moves(n, turn) ==
    [i \in 1..Len(n.kids) |->
        CHOOSE m \in legal_moves(n) :
            Cardinality({o \in legal_moves(n) : Before(n, turn = WHITE, o, m)}) = i - 1]

----------------------------------------------------------------------------
(* minimax_root and minimax, step by step *)

Max(a, b) == IF a >= b THEN a ELSE b

Min(a, b) == IF a <= b THEN a ELSE b

\* lines 190-193: a score beyond MATE_THRESHOLD moves one unit toward zero
mate_adjust(curr_move) ==
    IF curr_move = inf \/ curr_move = 0 - inf THEN curr_move
    ELSE IF curr_move > MATE_THRESHOLD THEN curr_move - 1
    ELSE IF curr_move < 0 - MATE_THRESHOLD THEN curr_move + 1
    ELSE curr_move

\* the depth test placed before the terminal checks
entry_depth_first(n, d, is_maximising_player) ==
    IF d = 0 THEN [to |-> "leaf", value |-> evaluate_board(n)]
    ELSE IF is_checkmate(n)
    THEN [to |-> "mate", value |-> IF is_maximising_player THEN 0 - MATE_SCORE ELSE MATE_SCORE]
    ELSE IF is_game_over(n) THEN [to |-> "over", value |-> 0]
    ELSE [to |-> "loop", value |-> 0]

\* lines 173-181: what an invocation does before its loop.
\* "mate", "over" and "leaf" return value at once; "loop" goes on to the moves
entry(n, d, is_maximising_player) ==
    IF is_checkmate(n)
    THEN [to |-> "mate", value |-> IF is_maximising_player THEN 0 - MATE_SCORE ELSE MATE_SCORE]
    ELSE IF is_game_over(n) THEN [to |-> "over", value |-> 0]
    ELSE IF d = 0 THEN [to |-> "leaf", value |-> evaluate_board(n)]
    ELSE [to |-> "loop", value |-> 0]

\* the flag handed on unchanged
child_flag_same(is_maximising_player) == is_maximising_player

\* line 151 and lines 188, 208: the flag handed to the child invocation
child_flag(is_maximising_player) == ~is_maximising_player

\* strict comparisons at the root
root_takes_strictly(maximize, value, best_move) ==
    IF maximize THEN value > best_move ELSE value < best_move

\* lines 153 and 156: the root takes value as its new best
root_takes(maximize, value, best_move) ==
    IF maximize THEN value >= best_move ELSE value <= best_move

\* lines 200 and 219: the cutoff test
cutoff(alpha, beta) == beta <= alpha

\* the cutoff return placed before board.pop()
pop_unless_cut(b, cut) == IF cut THEN b ELSE pop(b)

\* lines 198 and 217: board.pop() comes before the cutoff test, so the move is
\* popped whether or not the loop is cut
pop_in_loop(b, cut) == pop(b)

Frame(d, alpha, beta, is_max) ==
    [depth |-> d, alpha |-> alpha, beta |-> beta, is_maximising_player |-> is_max,
     best_move |-> 0, moves |-> <<>>, i |-> 0, at |-> "enter"]

Top == frames[Len(frames)]

\* the invocation on top returns v to its caller
Return(v, fs) ==
    /\ ret' = v
    /\ IF Len(fs) = 1
       THEN /\ frames' = <<>>
            /\ pc' = "root_got"
       ELSE /\ frames' = [SubSeq(fs, 1, Len(fs) - 1) EXCEPT ![Len(fs) - 1].at = "got"]
            /\ pc' = "minimax"

NoFeat == [name |-> "none", left |-> 0, copy |-> <<>>]

\* next_move(depth, board) up to the loop of minimax_root (lines 26-30, 137-143)
NextMove ==
    /\ pc \in {"idle", "done"}
    /\ calls < MaxCalls
    /\ calls' = calls + 1
    /\ board0' = board
    /\ debug_info' = reset_stats(debug_info)
    /\ consulted' = consulted + 1
    /\ LET moves == get_ordered_moves(Position(board), board.turn)
           maximize == board.turn = WHITE
       IN  IF moves = <<>>
           THEN /\ pc' = "raised"       \* moves[0]: IndexError
                /\ UNCHANGED root
           ELSE /\ pc' = "root_loop"
                /\ root' = [maximize |-> maximize,
                            best_move |-> IF maximize THEN 0 - inf ELSE inf,
                            moves |-> moves, best_move_found |-> moves[1],
                            i |-> 1, values |-> <<>>]
    /\ result' = 0
    /\ UNCHANGED <<tree, depth, board, frames, ret, feat>>

\* next_move whose get_ordered_moves call at the root raises (line 142)
RaiseAtRoot ==
    /\ pc \in {"idle", "done"}
    /\ calls < MaxCalls
    /\ calls' = calls + 1
    /\ board0' = board
    /\ debug_info' = reset_stats(debug_info)
    /\ pc' = "raised"
    /\ result' = 0
    /\ UNCHANGED <<tree, depth, board, root, frames, ret, consulted, feat>>

\* lines 146-151: push the move; a claimable draw is worth 0.0, else minimax is called
RootPush ==
    /\ pc = "root_loop"
    /\ board' = push(board, root.moves[root.i])
    /\ IF can_claim_draw(Position(board'))
       THEN /\ ret' = 0
            /\ pc' = "root_got"
            /\ UNCHANGED frames
       ELSE /\ frames' = <<Frame(depth - 1, 0 - inf, inf, child_flag(root.maximize))>>
            /\ pc' = "minimax"
            /\ UNCHANGED ret
    /\ UNCHANGED <<tree, depth, board0, debug_info, root, result, calls, consulted, feat>>

\* lines 152-160: pop, keep the value if it is the best so far, next move or return
RootPop ==
    /\ pc = "root_got"
    /\ board' = pop(board)
    /\ LET value == ret
           takes == root_takes(root.maximize, value, root.best_move)
           r == [root EXCEPT !.best_move = IF takes THEN value ELSE @,
                             !.best_move_found = IF takes THEN root.moves[root.i] ELSE @,
                             !.values = Append(@, value)]
       IN  IF root.i < Len(root.moves)
           THEN /\ root' = [r EXCEPT !.i = @ + 1]
                /\ pc' = "root_loop"
                /\ UNCHANGED <<result, debug_info>>
           ELSE /\ root' = r
                /\ pc' = "done"
                /\ result' = r.best_move_found
                /\ debug_info' = Put(debug_info, "time", 0)
    /\ UNCHANGED <<tree, depth, board0, frames, ret, calls, consulted, feat>>

\* lines 171-185 (204-205): count the node, the terminal checks, the leaf, the move list
MinimaxEnter ==
    /\ pc = "minimax"
    /\ Top.at = "enter"
    /\ debug_info' = count_node(debug_info)
    /\ LET n == Position(board)
           e == entry(n, Top.depth, Top.is_maximising_player)
           moves == get_ordered_moves(n, board.turn)
           best == IF Top.is_maximising_player THEN 0 - inf ELSE inf
       IN  IF e.to \in {"mate", "over"}
           THEN Return(e.value, frames) /\ UNCHANGED consulted
           ELSE /\ consulted' = consulted + 1
                /\ IF e.to = "leaf" THEN Return(e.value, frames)
                   ELSE IF moves = <<>> THEN Return(best, frames)
                   ELSE /\ frames' = [frames EXCEPT ![Len(frames)] =
                                        [@ EXCEPT !.moves = moves, !.i = 1,
                                                  !.best_move = best, !.at = "loop"]]
                        /\ UNCHANGED <<ret, pc>>
    /\ UNCHANGED <<tree, depth, board, board0, root, result, calls, feat>>

\* lines 187-188 (207-208): push the move and call minimax
MinimaxPush ==
    /\ pc = "minimax"
    /\ Top.at = "loop"
    /\ board' = push(board, Top.moves[Top.i])
    /\ frames' = Append(frames, Frame(Top.depth - 1, Top.alpha, Top.beta,
                                      child_flag(Top.is_maximising_player)))
    /\ UNCHANGED <<tree, depth, board0, debug_info, pc, root, ret, result, calls,
                   consulted, feat>>

\* lines 190-202 (209-221): adjust, aggregate, pop, narrow the window, cut off or go on
MinimaxPop ==
    /\ pc = "minimax"
    /\ Top.at = "got"
    /\ LET f == Top
           curr_move == mate_adjust(ret)
           best == IF f.is_maximising_player THEN Max(f.best_move, curr_move)
                                             ELSE Min(f.best_move, curr_move)
           alpha == IF f.is_maximising_player THEN Max(f.alpha, best) ELSE f.alpha
           beta == IF f.is_maximising_player THEN f.beta ELSE Min(f.beta, best)
       IN  /\ board' = pop_in_loop(board, cutoff(alpha, beta))
           /\ IF cutoff(alpha, beta) \/ f.i = Len(f.moves)
              THEN Return(best, frames)
              ELSE /\ frames' = [frames EXCEPT ![Len(frames)] =
                                   [@ EXCEPT !.best_move = best, !.alpha = alpha,
                                             !.beta = beta, !.i = @ + 1, !.at = "loop"]]
                   /\ UNCHANGED <<ret, pc>>
    /\ UNCHANGED <<tree, depth, board0, debug_info, root, result, calls, consulted, feat>>

\* a Board Model, evaluator or orderer call of an invocation raises: the error
\* leaves minimax, minimax_root and next_move, none of which catches it
RaiseInMinimax ==
    /\ pc = "minimax"
    /\ Top.at = "enter"
    /\ debug_info' = count_node(debug_info)
    /\ pc' = "raised"
    /\ frames' = <<>>
    /\ UNCHANGED <<tree, depth, board, board0, root, ret, result, calls, consulted, feat>>

----------------------------------------------------------------------------
(* The positions a behaviour starts from *)

\* the rule by which a drawn position ply plies below the root is drawn
DrawRule(ply) ==
    <<"stalemate", "insufficient_material", "seventyfive_moves",
      "fivefold_repetition">>[((ply - 1) % 4) + 1]

\* below the root a later legal move has the larger move_value
Indexed(f) == [i \in 1..Len(f) |-> [f[i] EXCEPT !.key = i]]

RECURSIVE TreesEx(_, _, _), ForestsEx(_, _, _, _)
\* the trees of exactly m positions under a position ply plies below the root
\* that is searched with depth d left.  A position without continuations is
\* over, or is where the search depth runs out.
TreesEx(m, d, ply) ==
    IF m = 1
    THEN {Node(k, piece_value_QUEEN, <<>>) : k \in {"checkmate", DrawRule(ply)}}
         \cup (IF d = 0 THEN {Node("play", e, <<>>) : e \in EvalValues} ELSE {})
    ELSE IF d = 0 THEN {}
    ELSE {Node("play", 0, Indexed(f)) : f \in ForestsEx(m - 1, d - 1, MaxMoves, ply + 1)}

\* the sequences of at most k such trees, of n positions in all
ForestsEx(n, d, k, ply) ==
    IF n = 0 THEN {<<>>}
    ELSE IF k = 0 THEN {}
    ELSE UNION {{<<t>> \o f : t \in TreesEx(m, d, ply),
                              f \in ForestsEx(n - m, d, k - 1, ply)} : m \in 1..n}

\* the root positions for a call of depth d: at most MaxNodes positions below
\* the root, each position after a root move with its can_claim_draw answer and
\* the move_value of that move
RootTrees(d) ==
    UNION {
        IF n = 0 THEN {Node(k, piece_value_QUEEN, <<>>) : k \in {"checkmate", "stalemate"}}
        ELSE {Node("play", 0, [i \in 1..Len(x[1]) |->
                                 [x[1][i] EXCEPT !.claim = x[2][i], !.key = x[3][i]]]) :
                x \in UNION {{<<g, c, k>> : c \in [1..Len(g) -> BOOLEAN],
                                            k \in [1..Len(g) -> Keys]} :
                               g \in ForestsEx(n, d - 1, MaxMoves, 1)}}
        : n \in 0..MaxNodes}

Mate == Node("checkmate", piece_value_QUEEN, <<>>)

Leaf(e) == Node("play", e, <<>>)

In(ks) == Node("play", 0, ks)

\* A position searched to depth 3 in which leaf evaluations lie beyond
\* MATE_THRESHOLD
BigLeaf ==
    In(<<In(<<In(<<Leaf(MATE_THRESHOLD + 3), Leaf(0)>>),
             In(<<Leaf(MATE_THRESHOLD + 2), Leaf(MATE_THRESHOLD + 3)>>)>>)>>)

\* A position searched to depth 7.  After the first root move the side to move
\* is mated in 4 plies whatever it plays; after the second it is mated in 6.
MateLadder ==
    In(<<In(<<In(<<In(<<In(<<Mate>>)>>)>>),
             In(<<In(<<In(<<In(<<In(<<Mate>>)>>), Mate>>)>>)>>)>>),
         In(<<In(<<In(<<In(<<In(<<In(<<Mate>>)>>)>>)>>)>>)>>)>>)

\* Positions searched to depth 3 with one root move, two replies to it and two
\* answers to each reply: the smallest trees in which a cutoff can happen
Pruning ==
    {In(<<Node("play", 0, Indexed(<<In(Indexed(<<Leaf(a), Leaf(b)>>)),
                                    In(Indexed(<<Leaf(c), Leaf(d)>>))>>))>>) :
        a \in EvalValues, b \in EvalValues, c \in EvalValues, d \in EvalValues}

Scenarios ==
    {[tree |-> BigLeaf, depth |-> 3], [tree |-> MateLadder, depth |-> 7]}
        \cup {[tree |-> t, depth |-> 3] : t \in Pruning}

Inputs == {[tree |-> t, depth |-> d] : <<t, d>> \in UNION {{<<u, e>> : u \in RootTrees(e)} : e \in Depths}}
            \cup Scenarios

\* nothing has been called yet: the position is one of inputs, either side to move
InitOn(inputs) ==
    /\ \E in \in inputs : tree = in.tree /\ depth = in.depth
    /\ \E turn \in {WHITE, BLACK} : board = [move_stack |-> History, turn |-> turn]
    /\ board0 = board
    /\ debug_info = {}
    /\ pc = "idle"
    /\ root = [maximize |-> FALSE, best_move |-> 0, moves |-> <<>>,
               best_move_found |-> 0, i |-> 0, values |-> <<>>]
    /\ frames = <<>>
    /\ ret = 0
    /\ result = 0
    /\ calls = 0
    /\ consulted = 0
    /\ feat = NoFeat

Init == InitOn(Inputs)

Next ==
    \/ NextMove
    \/ RaiseAtRoot
    \/ RootPush
    \/ RootPop
    \/ MinimaxEnter
    \/ MinimaxPush
    \/ MinimaxPop
    \/ RaiseInMinimax

Spec == Init /\ [][Next]_vars

----------------------------------------------------------------------------
(* The feature extractors and the move orderer, called on their own.       *)
(* feat.name is the call in progress (or the last one made), feat.left the  *)
(* pieces its loop has still to visit, feat.copy the move stack of the     *)
(* board.copy() it works on.                                               *)

Extractors == {"evaluate_mobility", "evaluate_threats", "evaluate_open_lines",
               "evaluate_pawn_structure", "evaluate_board_score",
               "get_ordered_moves"}

\* a call of one extractor starts; pieces is what board.pieces(...) yields
FeatureCall ==
    /\ pc = "idle"
    /\ calls < MaxCalls
    /\ calls' = calls + 1
    /\ board0' = board
    /\ \E name \in Extractors, pieces \in 0..MaxPieces :
        feat' = [name |-> name, left |-> pieces, copy |-> <<>>]
    /\ pc' = "feature"
    /\ UNCHANGED <<tree, depth, board, debug_info, root, frames, ret, result, consulted>>

\* the call, or a Board Model call it makes, raises before anything is done
\* (get_ordered_moves: one of its extractor calls raises)
FeatureRaise ==
    /\ pc = "feature"
    /\ pc' = "raised"
    /\ UNCHANGED <<tree, depth, board, board0, debug_info, root, frames, ret, result,
                   calls, consulted, feat>>

\* evaluate_mobility, line 59: board.push(piece.move) for the next piece; what
\* push returns is then iterated, which raises or goes on.  Nothing pops.
MobilityPush ==
    /\ pc = "feature"
    /\ feat.name = "evaluate_mobility"
    /\ feat.left > 0
    /\ \E move \in 1..MaxMoves : board' = push(board, move)
    /\ \E raises \in BOOLEAN :
        IF raises THEN pc' = "raised" /\ UNCHANGED feat
        ELSE pc' = "feature" /\ feat' = [feat EXCEPT !.left = @ - 1]
    /\ UNCHANGED <<tree, depth, board0, debug_info, root, frames, ret, result, calls,
                   consulted>>

\* evaluate_threats, lines 66-67: new_board = board.copy(); new_board.push(move)
ThreatsPush ==
    /\ pc = "feature"
    /\ feat.name = "evaluate_threats"
    /\ feat.left > 0
    /\ \E move \in 1..MaxMoves :
        feat' = [feat EXCEPT !.left = @ - 1, !.copy = push(board, move).move_stack]
    /\ UNCHANGED <<tree, depth, board, board0, debug_info, pc, root, frames, ret, result,
                   calls, consulted>>

\* evaluate_open_lines, evaluate_pawn_structure, evaluate_board_score and
\* get_ordered_moves only read the board; every extractor returns when its
\* loop is done
FeatureReturn ==
    /\ pc = "feature"
    /\ feat.name \in {"evaluate_mobility", "evaluate_threats"} => feat.left = 0
    /\ pc' = "idle"
    /\ feat' = [feat EXCEPT !.left = 0]
    /\ UNCHANGED <<tree, depth, board, board0, debug_info, root, frames, ret, result,
                   calls, consulted>>

NextFeatures ==
    \/ FeatureCall
    \/ FeatureRaise
    \/ MobilityPush
    \/ ThreatsPush
    \/ FeatureReturn

InitFeatures == InitOn({[tree |-> In(<<Leaf(0), Leaf(1)>>), depth |-> 1]})

SpecFeatures == InitFeatures /\ [][NextFeatures]_vars

----------------------------------------------------------------------------
(* The search as functions of the position, for the claims to refer to *)

MaxOf(S) == CHOOSE x \in S : \A y \in S : x >= y

MinOf(S) == CHOOSE x \in S : \A y \in S : x <= y

Abs(x) == IF x < 0 THEN 0 - x ELSE x

RECURSIVE full_minimax(_, _, _)
\* minimax without the window: every move of every position is searched
full_minimax(n, d, is_maximising_player) ==
    LET e == entry(n, d, is_maximising_player)
        below == {mate_adjust(full_minimax(n.kids[m], d - 1, ~is_maximising_player)) :
                    m \in legal_moves(n)}
    IN  IF e.to # "loop" THEN e.value
        ELSE IF is_maximising_player THEN MaxOf(below \cup {0 - inf})
        ELSE MinOf(below \cup {inf})

\* the values minimax_root would give the root moves, in get_ordered_moves order,
\* were no subtree cut off
full_values(t, turn, d) ==
    LET moves == get_ordered_moves(t, turn)
    IN  [i \in 1..Len(moves) |->
            IF can_claim_draw(t.kids[moves[i]]) THEN 0
            ELSE full_minimax(t.kids[moves[i]], d - 1, turn # WHITE)]

RECURSIVE pick(_, _, _, _, _, _)
\* the loop of minimax_root over values already computed
pick(values, moves, maximize, i, best_move, best_move_found) ==
    IF i > Len(moves) THEN best_move_found
    ELSE IF root_takes(maximize, values[i], best_move)
         THEN pick(values, moves, maximize, i + 1, values[i], moves[i])
         ELSE pick(values, moves, maximize, i + 1, best_move, best_move_found)

full_move(t, turn, d) ==
    LET moves == get_ordered_moves(t, turn)
    IN  pick(full_values(t, turn, d), moves, turn = WHITE, 1,
             IF turn = WHITE THEN 0 - inf ELSE inf, moves[1])

RECURSIVE visits(_, _, _, _, _, _), visits_loop(_, _, _, _, _, _, _, _, _, _)
\* the number of minimax invocations under (and with) the invocation on n, and
\* its value: [value, nodes]
visits(n, d, alpha, beta, is_maximising_player, turn) ==
    LET e == entry(n, d, is_maximising_player)
    IN  IF e.to # "loop" THEN [value |-> e.value, nodes |-> 1]
        ELSE visits_loop(n, get_ordered_moves(n, turn), 1, d, alpha, beta,
                         is_maximising_player, turn,
                         IF is_maximising_player THEN 0 - inf ELSE inf, 1)

visits_loop(n, moves, i, d, alpha, beta, is_maximising_player, turn, best_move, nodes) ==
    IF i > Len(moves) THEN [value |-> best_move, nodes |-> nodes]
    ELSE LET r == visits(n.kids[moves[i]], d - 1, alpha, beta,
                         ~is_maximising_player, ~turn)
             curr_move == mate_adjust(r.value)
             best == IF is_maximising_player THEN Max(best_move, curr_move)
                                             ELSE Min(best_move, curr_move)
             a == IF is_maximising_player THEN Max(alpha, best) ELSE alpha
             b == IF is_maximising_player THEN beta ELSE Min(beta, best)
         IN  IF b <= a THEN [value |-> best, nodes |-> nodes + r.nodes]
             ELSE visits_loop(n, moves, i + 1, d, a, b, is_maximising_player, turn,
                              best, nodes + r.nodes)

RECURSIVE root_visits(_, _, _, _)
\* the minimax invocations of one minimax_root call on t
root_visits(t, turn, d, i) ==
    LET moves == get_ordered_moves(t, turn)
        kid == t.kids[moves[i]]
    IN  IF i > Len(moves) THEN 0
        ELSE (IF can_claim_draw(kid) THEN 0
              ELSE visits(kid, d - 1, 0 - inf, inf, turn # WHITE, ~turn).nodes)
             + root_visits(t, turn, d, i + 1)

RECURSIVE forced_mate(_, _, _)
\* from n the winning side forces checkmate within k plies; to_move_wins says
\* whether the winning side is the side to move at n
forced_mate(n, to_move_wins, k) ==
    IF is_checkmate(n) THEN ~to_move_wins
    ELSE IF is_game_over(n) \/ k = 0 \/ n.kids = <<>> THEN FALSE
    ELSE IF to_move_wins
         THEN \E m \in legal_moves(n) : forced_mate(n.kids[m], FALSE, k - 1)
         ELSE \A m \in legal_moves(n) : forced_mate(n.kids[m], TRUE, k - 1)

\* the plies to the forced mate, given that there is one within k plies
mate_in(n, to_move_wins, k) ==
    MinOf({j \in 0..k : forced_mate(n, to_move_wins, j)})

RECURSIVE Size(_)
Size(t) == 1 + (IF t.kids = <<>> THEN 0
                ELSE LET sizes == [i \in 1..Len(t.kids) |-> Size(t.kids[i])]
                         sum[i \in 0..Len(sizes)] ==
                            IF i = 0 THEN 0 ELSE sum[i - 1] + sizes[i]
                     IN  sum[Len(sizes)])

----------------------------------------------------------------------------
(* Claims *)

Nodes == Get(debug_info, "nodes")

\* the moves the invocations in progress have pushed and not yet popped
RecursionPath ==
    LET pushing == IF frames # <<>> /\ Top.at = "got" THEN Len(frames)
                   ELSE Len(frames) - 1
    IN  (IF pc \in {"minimax", "root_got"} THEN <<root.moves[root.i]>> ELSE <<>>)
        \o (IF frames = <<>> THEN <<>>
            ELSE [k \in 1..pushing |-> frames[k].moves[frames[k].i]])

Extremal ==
    LET vs == {root.values[i] : i \in 1..Len(root.values)}
        x == IF root.maximize THEN MaxOf(vs) ELSE MinOf(vs)
    IN  {i \in 1..Len(root.values) : root.values[i] = x}

RootKid(i) == tree.kids[root.moves[i]]

\* root move i leads to a position from which checkmate is forced within the
\* depth searched; wins says whether the side to move there delivers it
Mates(i, wins) ==
    /\ depth >= 1
    /\ ~can_claim_draw(RootKid(i))
    /\ forced_mate(RootKid(i), wins, depth - 1)

C7_TerminalFirst ==
    [][(/\ pc = "minimax"
        /\ Top.at = "enter"
        /\ is_game_over(Position(board))
        /\ pc' # "raised")
       => (/\ ret' = (IF ~is_checkmate(Position(board)) THEN 0
                      ELSE IF Top.is_maximising_player THEN 0 - MATE_SCORE
                      ELSE MATE_SCORE)
           /\ board' = board
           /\ consulted' = consulted
           /\ Len(frames') = Len(frames) - 1)]_vars

\* an invocation with depth 0 on a drawn position a queen up has returned 0
C7_Witness ==
    /\ pc = "root_got"
    /\ depth = 1
    /\ ~can_claim_draw(Position(board))
    /\ Position(board).kind \in DrawKinds
    /\ evaluate_board(Position(board)) = piece_value_QUEEN
    /\ ret = 0

C9_ExtractorsPure ==
    (feat.name \in Extractors /\ pc \in {"idle", "raised"}) => board = board0

====
